---- MODULE Spec2Model ----
(***************************************************************************)
(* The unified-diff parser of internal/git/parser.go (diffParser) and the  *)
(* git Service that feeds it.  A Go string is the sequence of its bytes,    *)
(* each a one-character string, so that prefixes, regular expressions and  *)
(* slices are computed on the text itself; a byte that cannot be written   *)
(* in a string here is the string of its two hexadecimal digits ("0B" is   *)
(* the vertical tab; "C2", "A0" are the two bytes of U+00A0).  The         *)
(* parser's cursor p.current is 0-based as in the source;                  *)
(* p.lines[p.current] is lines[current + 1] here.                          *)
(***************************************************************************)
EXTENDS Integers, Sequences, FiniteSets, TLC

VARIABLES
    lines,      \* diffParser.lines
    current,    \* diffParser.current
    pc,         \* position of the call: "parse", "file", "hunk", "done", "panic"
    files,      \* parse: the local slice files
    file,       \* parseFile: the FileDiff under construction
    hunk,       \* parseHunk: the Hunk under construction
    oldLine,    \* parseHunk: local oldLine
    newLine,    \* parseHunk: local newLine
    err,        \* parse: the error value returned ("none" before the return)
    svc,        \* the call of the Service under way: its name, its place, its arguments
    diffFiles,  \* GetDiff: the local slice files
    untrackedFiles, \* GetDiff: the untracked files the loop has still to visit
    asked,      \* the commands run and files read by the call, with their answers
    fileDiff,   \* getUntrackedFileDiff: the value returned (NotCalled before)
    statusList, \* GetStatus: the value returned (NoStatus before)
    diffResult, \* GetDiff: the value returned (NoDiff before)
    found       \* GetFileDiff: the value returned (NotFound before)

vars == <<lines, current, pc, files, file, hunk, oldLine, newLine, err,
          svc, diffFiles, untrackedFiles, asked, fileDiff, statusList, diffResult, found>>

parserVars == <<lines, current, pc, files, file, hunk, oldLine, newLine, err>>
serviceVars == <<svc, diffFiles, untrackedFiles, asked, fileDiff, statusList, diffResult, found>>

-----------------------------------------------------------------------------
(* Bounds of the model *)

\* longest text, in lines, of the exhaustive part of the inputs
MaxLen == 4
\* longest untracked file content, in bytes
MaxContent == 5
\* largest start or count written into a generated hunk header
MaxNum == 2

-----------------------------------------------------------------------------
(* Go strings *)

Digit == {"0", "1", "2", "3", "4", "5", "6", "7", "8", "9"}

Lower == {"a", "b", "c", "d", "e", "f", "g", "h", "i", "j", "k", "l", "m",
          "n", "o", "p", "q", "r", "s", "t", "u", "v", "w", "x", "y", "z"}

NL == "\n"

Min(S) == CHOOSE x \in S : \A y \in S : x <= y
Max(S) == CHOOSE x \in S : \A y \in S : x >= y

\* s[from:] with a 1-based first index
Tail1(s, from) == SubSeq(s, from, Len(s))

\* whether pat occurs in s at 1-based position i
OccursAt(s, i, pat) ==
    /\ i >= 1
    /\ i + Len(pat) - 1 <= Len(s)
    /\ SubSeq(s, i, i + Len(pat) - 1) = pat

\* strings.HasPrefix
HasPrefix(s, prefix) == OccursAt(s, 1, prefix)

\* strings.TrimPrefix
TrimPrefix(s, prefix) ==
    IF HasPrefix(s, prefix) THEN Tail1(s, Len(prefix) + 1) ELSE s

\* strings.Split(s, "\n"): the pieces between the separators, Count+1 of them
RECURSIVE Split(_)
Split(s) ==
    LET seps == {i \in 1..Len(s) : s[i] = NL}
    IN  IF seps = {} THEN <<s>>
        ELSE LET i == Min(seps)
             IN  <<SubSeq(s, 1, i - 1)>> \o Split(Tail1(s, i + 1))

DigitVal(c) ==
    CASE c = "0" -> 0 [] c = "1" -> 1 [] c = "2" -> 2 [] c = "3" -> 3
      [] c = "4" -> 4 [] c = "5" -> 5 [] c = "6" -> 6 [] c = "7" -> 7
      [] c = "8" -> 8 [] c = "9" -> 9

DigitChar(d) ==
    CASE d = 0 -> "0" [] d = 1 -> "1" [] d = 2 -> "2" [] d = 3 -> "3"
      [] d = 4 -> "4" [] d = 5 -> "5" [] d = 6 -> "6" [] d = 7 -> "7"
      [] d = 8 -> "8" [] d = 9 -> "9"

\* fmt.Sprintf("%d", n) for n >= 0
RECURSIVE Itoa(_)
Itoa(n) ==
    IF n < 10 THEN <<DigitChar(n)>>
    ELSE Itoa(n \div 10) \o <<DigitChar(n % 10)>>

\* the 1-based index of the last character of the maximal run of digits of s
\* that starts at i (i - 1 when s[i] is no digit): what a greedy \d+ takes
DigitRunEnd(s, i) ==
    LET stops == {k \in i..Len(s) : s[k] \notin Digit}
    IN  IF stops = {} THEN Len(s) ELSE Min(stops) - 1

-----------------------------------------------------------------------------
(* Go int: 64 bits, two's complement.  A value is <<hi, mid, lo>>, the      *)
(* number hi * 2^42 + mid * 2^21 + lo with mid and lo in 0..2^21-1; a Go    *)
(* int has hi in -2^21..2^21-1.  The lengths and tallies of slices stay     *)
(* plain numbers: a slice never holds 2^31 elements.                        *)

Limb == 2 ^ 21

\* the number hi * 2^42 + mid * 2^21 + lo with the carries taken up; hi is
\* left as it comes out, so the result may lie outside the range of int
Carry(hi, mid, lo) ==
    LET m == mid + (lo \div Limb)
    IN  <<hi + (m \div Limb), m % Limb, lo % Limb>>

\* the int of a small number
IntOf(n) == Carry(0, 0, n)

MaxInt == <<Limb - 1, Limb - 1, Limb - 1>>
MinInt == <<0 - Limb, 0, 0>>

\* whether a number is in the range of int
IsInt(v) == 0 - Limb <= v[1] /\ v[1] < Limb

\* a number reduced modulo 2^64 into the range of int: what Go's arithmetic
\* on int leaves
Wrap(v) == <<((v[1] + Limb) % (2 * Limb)) - Limb, v[2], v[3]>>

\* v + n and 10 * v + d as numbers, without regard to the range
Plus(v, n) == Carry(v[1], v[2], v[3] + n)
TimesTenPlus(v, d) == Carry(10 * v[1], 10 * v[2], 10 * v[3] + d)

\* x++ on an int
IntInc(v) == Wrap(Plus(v, 1))

\* the value strconv.Atoi gives for a number out of range: the largest int
Saturate(v) == IF IsInt(v) THEN v ELSE MaxInt

\* strconv.Atoi on a string of decimal digits (the only strings the hunk
\* pattern's groups capture), with the error dropped as parseHunk drops it:
\* the value, or the largest int when the value is out of range (digit by
\* digit from the left; the value of the leading digits is bound as a
\* value, so that it is computed once)
RECURSIVE AtoiUpTo(_, _)
AtoiUpTo(ds, n) ==
    IF n = 0 THEN IntOf(0)
    ELSE CHOOSE v \in {Saturate(TimesTenPlus(head, DigitVal(ds[n]))) :
                          head \in {AtoiUpTo(ds, n - 1)}} : TRUE
Atoi(ds) == AtoiUpTo(ds, Len(ds))

-----------------------------------------------------------------------------
(* The literals of parser.go *)

DiffGit == <<"d", "i", "f", "f", " ", "-", "-", "g", "i", "t">>
NewFilePrefix == <<"n", "e", "w", " ", "f", "i", "l", "e">>
DeletedFilePrefix == <<"d", "e", "l", "e", "t", "e", "d", " ", "f", "i", "l", "e">>
RenameFromPrefix == <<"r", "e", "n", "a", "m", "e", " ", "f", "r", "o", "m">>
RenameFromTrim == <<"r", "e", "n", "a", "m", "e", " ", "f", "r", "o", "m", " ">>
BinaryFilesPrefix == <<"B", "i", "n", "a", "r", "y", " ", "f", "i", "l", "e", "s">>
AtAt == <<"@", "@">>

FileStatusAdded == "added"
FileStatusDeleted == "deleted"
FileStatusModified == "modified"
FileStatusRenamed == "renamed"

LineTypeAdded == "added"
LineTypeDeleted == "deleted"
LineTypeContext == "context"

\* a nil *int, and a pointer to a copy of n
Nil == <<>>
Ptr(n) == <<n>>

-----------------------------------------------------------------------------
(* The two regular expressions.  FindStringSubmatch returns the leftmost    *)
(* match and its groups, or nil (the empty sequence here) when there is     *)
(* none.  The lines never hold a newline, so "." matches every character.   *)

\* `diff --git [a-z]/(.+) [a-z]/(.+)` matched at i: the places j of a
\* separator " [a-z]/" that leaves one character or more to either group
PathSeps(s, i) ==
    {j \in (i + 14)..Len(s) :
        /\ s[j] = " "
        /\ j + 3 <= Len(s)
        /\ s[j + 1] \in Lower
        /\ s[j + 2] = "/"}

PathsMatchAt(s, i) ==
    /\ OccursAt(s, i, DiffGit \o <<" ">>)
    /\ i + 12 <= Len(s)
    /\ s[i + 11] \in Lower
    /\ s[i + 12] = "/"
    /\ PathSeps(s, i) # {}

\* the first (.+) is greedy: it runs to the last separator that still matches
FindPaths(s) ==
    LET starts == {i \in 1..Len(s) : PathsMatchAt(s, i)}
    IN  IF starts = {} THEN <<>>
        ELSE LET i == Min(starts)
                 j == Max(PathSeps(s, i))
             IN  <<Tail1(s, i), SubSeq(s, i + 13, j - 1), Tail1(s, j + 3)>>

\* `@@ -(\d+)(?:,(\d+))? \+(\d+)(?:,(\d+))? @@(.*)`, piece by piece.  A
\* position is the 1-based index of the next character to match; each piece
\* gives the positions after it (none when it does not match).  \d+ is
\* greedy and takes the whole run of digits; the pattern matches in one way
\* at most, since after a shorter run the next character is a digit.
AfterLit(s, p, lit) == IF OccursAt(s, p, lit) THEN {p + Len(lit)} ELSE {}
AfterDigits(s, p) ==
    IF DigitRunEnd(s, p) >= p THEN {DigitRunEnd(s, p) + 1} ELSE {}
\* (?:,(\d+))? takes ",<digits>" when it is there and nothing otherwise
AfterCount(s, p) ==
    IF AfterLit(s, p, <<",">>) # {} /\ AfterDigits(s, p + 1) # {}
    THEN AfterDigits(s, p + 1) ELSE {p}

\* the text from position p up to position q; a count group holds the
\* digits behind the comma, or is empty when the count is omitted
Between(s, p, q) == SubSeq(s, p, q - 1)
CountGroup(s, p, q) == IF q > p THEN Between(s, p + 1, q) ELSE <<>>

\* the submatches of the pattern matched at i, as a set of none or one; a
\* group that did not take part is the empty string
HunkMatchesAt(s, i) ==
    UNION {UNION {UNION {UNION {UNION {UNION {
        {<<Tail1(s, i), Between(s, p1, p2), CountGroup(s, p2, p3),
           Between(s, p4, p5), CountGroup(s, p5, p6), Tail1(s, p7)>> :
            p7 \in AfterLit(s, p6, <<" ", "@", "@">>)} :
            p6 \in AfterCount(s, p5)} :
            p5 \in AfterDigits(s, p4)} :
            p4 \in AfterLit(s, p3, <<" ", "+">>)} :
            p3 \in AfterCount(s, p2)} :
            p2 \in AfterDigits(s, p1)} :
            p1 \in AfterLit(s, i, <<"@", "@", " ", "-">>)}

\* the leftmost match, or nil
FindHunkHeader(s) ==
    LET starts == {i \in 1..Len(s) : HunkMatchesAt(s, i) # {}}
    IN  IF starts = {} THEN <<>>
        ELSE CHOOSE m \in HunkMatchesAt(s, Min(starts)) : TRUE

-----------------------------------------------------------------------------
(* parseFile and parseHunk, piece by piece *)

\* whether a 0-based index is inside a slice or string; Go panics otherwise
InRange(s, idx) == 0 <= idx /\ idx < Len(s)

\* parseFile, the FileDiff literal and the path pattern on the marker line
FileHeader(diffLine) ==
    LET paths == FindPaths(diffLine)
        matched == Len(paths) >= 3
    IN  [OldPath   |-> IF matched THEN paths[2] ELSE <<>>,
         Path      |-> IF matched THEN paths[3] ELSE <<>>,
         Status    |-> "",
         IsBinary  |-> FALSE,
         Additions |-> 0,
         Deletions |-> 0,
         Hunks     |-> <<>>]

\* parseFile, the marker cases of the switch
IsMarkerLine(line) ==
    \/ HasPrefix(line, NewFilePrefix)
    \/ HasPrefix(line, DeletedFilePrefix)
    \/ HasPrefix(line, RenameFromPrefix)
    \/ HasPrefix(line, BinaryFilesPrefix)

MarkerLine(f, line) ==
    IF HasPrefix(line, NewFilePrefix) THEN
        [f EXCEPT !.Status = FileStatusAdded]
    ELSE IF HasPrefix(line, DeletedFilePrefix) THEN
        [f EXCEPT !.Status = FileStatusDeleted]
    ELSE IF HasPrefix(line, RenameFromPrefix) THEN
        [f EXCEPT !.Status = FileStatusRenamed,
                  !.OldPath = TrimPrefix(line, RenameFromTrim)]
    ELSE IF HasPrefix(line, BinaryFilesPrefix) THEN
        [f EXCEPT !.IsBinary = TRUE]
    ELSE f

\* parseFile, the tally loops over file.Hunks and hunk.Lines
RECURSIVE TallyLines(_, _)
TallyLines(ls, type) ==
    IF ls = <<>> THEN 0
    ELSE (IF Head(ls).Type = type THEN 1 ELSE 0) + TallyLines(Tail(ls), type)

\* faulty variant: only the first hunk is counted
TallyFirstHunk(hunks, type) ==
    IF hunks = <<>> THEN 0 ELSE TallyLines(Head(hunks).Lines, type)

RECURSIVE Tally(_, _)
Tally(hunks, type) ==
    IF hunks = <<>> THEN 0
    ELSE TallyLines(Head(hunks).Lines, type) + Tally(Tail(hunks), type)

\* faulty variant: a status that no marker line set is left empty
FinishFileNoDefault(f) ==
    [f EXCEPT !.Additions = f.Additions + Tally(f.Hunks, LineTypeAdded),
              !.Deletions = f.Deletions + Tally(f.Hunks, LineTypeDeleted)]

\* parseFile, from the end of the section loop to the return
FinishFile(f) ==
    [f EXCEPT !.Status = IF f.Status = "" THEN FileStatusModified ELSE f.Status,
              !.Additions = f.Additions + Tally(f.Hunks, LineTypeAdded),
              !.Deletions = f.Deletions + Tally(f.Hunks, LineTypeDeleted)]

\* parseHunk, a count group of the header: absent means 1
CountOf(group) == IF group # <<>> THEN Atoi(group) ELSE IntOf(1)

\* parseHunk, the Hunk built from a header that matched
NewHunk(header, matches) ==
    [Header   |-> header,
     Lines    |-> <<>>,
     OldStart |-> Atoi(matches[2]),
     OldLines |-> CountOf(matches[3]),
     NewStart |-> Atoi(matches[4]),
     NewLines |-> CountOf(matches[5])]

\* faulty variant: the empty-line test is missing
IsEmptyLineNever(line) == FALSE

\* parseHunk, the body loop's test of an empty line
IsEmptyLine(line) == Len(line) = 0

\* parseHunk, the switch on line[0]: whether the line becomes a Line
IsStored(line) == line[1] \in {"+", "-", " "}

\* faulty variant: the marker character is left in the content
LineObjKeepsMarker(line, old, new) ==
    [Type |-> IF line[1] = "+" THEN LineTypeAdded
              ELSE IF line[1] = "-" THEN LineTypeDeleted ELSE LineTypeContext,
     Content |-> line,
     OldNumber |-> IF line[1] = "+" THEN Nil ELSE Ptr(old),
     NewNumber |-> IF line[1] = "-" THEN Nil ELSE Ptr(new)]

\* parseHunk, the Line built by the '+', '-' and ' ' cases
LineObj(line, old, new) ==
    IF line[1] = "+" THEN
        [Type |-> LineTypeAdded, Content |-> Tail1(line, 2),
         OldNumber |-> Nil, NewNumber |-> Ptr(new)]
    ELSE IF line[1] = "-" THEN
        [Type |-> LineTypeDeleted, Content |-> Tail1(line, 2),
         OldNumber |-> Ptr(old), NewNumber |-> Nil]
    ELSE
        [Type |-> LineTypeContext, Content |-> Tail1(line, 2),
         OldNumber |-> Ptr(old), NewNumber |-> Ptr(new)]

\* faulty variant: an added line does not advance the new-side counter
NewAfterContextOnly(line, new) == IF line[1] = " " THEN IntInc(new) ELSE new

\* parseHunk, the counters after the line
OldAfter(line, old) == IF line[1] \in {"-", " "} THEN IntInc(old) ELSE old
NewAfter(line, new) == IF line[1] \in {"+", " "} THEN IntInc(new) ELSE new

-----------------------------------------------------------------------------
(* The diff texts the parser is run on *)

LDiff == DiffGit \o <<" ", "a", "/", "w", " ", "b", "/", "x">>
LBadDiff == DiffGit \o <<" ", "x">>
LNew == NewFilePrefix \o <<" ", "m", "o", "d", "e", " ", "1">>
LDeleted == DeletedFilePrefix \o <<" ", "m", "o", "d", "e", " ", "1">>
LRename == RenameFromTrim \o <<"w">>
LBinary == BinaryFilesPrefix \o <<" ", "d", "i", "f", "f", "e", "r">>
LHunk == <<"@", "@", " ", "-", "1", ",", "2", " ", "+", "3", " ", "@", "@">>
LHunk2 == <<"@", "@", " ", "-", "4", " ", "+", "4", ",", "2", " ", "@", "@">>
LHunk3 == <<"@", "@", " ", "-", "7", ",", "0", " ", "+", "6", " ", "@", "@">>
LBadHunk == <<"@", "@", " ", "b", "a", "d">>
LCtx == <<" ", "a">>
LDel == <<"-", "b">>
LAdd == <<"+", "c">>
LEmpty == <<>>
LBackslash == <<"\\", " ", "N", "o", " ", "n", "e", "w", "l", "i", "n", "e">>
LOther == <<"i", "n", "d", "e", "x", " ", "1">>

Vocab == {LDiff, LNew, LRename, LBinary, LHunk, LBadHunk,
          LCtx, LDel, LAdd, LEmpty, LOther}

BodyVocab == {LCtx, LDel, LAdd, LEmpty, LBackslash, LOther}

MarkerVocab == {LNew, LDeleted, LRename, LBinary}

StoredVocab == {LCtx, LDel, LAdd}

HeaderVocab == {LHunk, LHunk2, LHunk3}

\* the sequences over S of length 0..n
SeqsUpTo(S, n) == UNION {[1..k -> S] : k \in 0..n}

\* a hunk header as git writes it; a count is Written(n), or Omitted
Omitted == <<>>
Written(n) == <<n>>
Range(start, count) ==
    Itoa(start) \o (IF count = Omitted THEN <<>> ELSE <<",">> \o Itoa(count[1]))
MkHeader(os, oc, ns, nc) ==
    <<"@", "@", " ", "-">> \o Range(os, oc) \o <<" ", "+">> \o Range(ns, nc)
        \o <<" ", "@", "@">>

Starts == (0..MaxNum) \cup {10, 105}
Counts == {Written(n) : n \in Starts} \cup {Omitted}

\* the numerals at the end of the range of int: 2^63 - 1 and 2^63; and a
\* header with a start or count written as a numeral
NumMaxInt == <<"9", "2", "2", "3", "3", "7", "2", "0", "3", "6", "8", "5", "4",
               "7", "7", "5", "8", "0", "7">>
NumPastMaxInt == <<"9", "2", "2", "3", "3", "7", "2", "0", "3", "6", "8", "5", "4",
                   "7", "7", "5", "8", "0", "8">>
EdgeStarts == {NumMaxInt, NumPastMaxInt}
EdgeCounts == {Written(n) : n \in EdgeStarts} \cup {Omitted}
EdgeRange(start, count) ==
    start \o (IF count = Omitted THEN <<>> ELSE <<",">> \o count[1])
EdgeHeader(os, oc, ns, nc) ==
    <<"@", "@", " ", "-">> \o EdgeRange(os, oc) \o <<" ", "+">> \o EdgeRange(ns, nc)
        \o <<" ", "@", "@">>

\* Scenario A of the specification, with its trailing newline
ScenarioA ==
    << DiffGit \o <<" ", "a", "/", "x", ".", "t", "x", "t",
                    " ", "b", "/", "x", ".", "t", "x", "t">>,
       MkHeader(1, Written(2), 1, Written(3)),
       <<" ", "a">>, <<"-", "b">>, <<"+", "b", "2">>, <<"+", "c">>, <<>> >>

\* the longer texts: one hunk with every body of up to MaxLen lines; a
\* well-formed or malformed section marker followed by up to two status lines
\* and a hunk; two hunks of up to two lines each; every header over Starts
\* and Counts; a hunk before the first of two sections, either marker
\* well-formed or not; an unmatched header with up to two lines behind it
\* between well-formed hunks; every header over the numerals at the end of
\* the range of int, with two lines on either side; a hunk before the first
\* of two sections, either marker well-formed or not, the first section with
\* a status line and two hunks and the second with one, under every choice
\* of three headers; Scenario A
Families ==
    {<<LDiff, LHunk>> \o body : body \in SeqsUpTo(BodyVocab, MaxLen)}
    \cup {<<d>> \o ms \o <<LHunk, LAdd>> :
            d \in {LDiff, LBadDiff}, ms \in SeqsUpTo(MarkerVocab, 2)}
    \cup {<<LDiff, LHunk>> \o b1 \o <<LHunk>> \o b2 :
            b1 \in SeqsUpTo(StoredVocab, 2), b2 \in SeqsUpTo(StoredVocab, 2)}
    \cup {<<LDiff, MkHeader(os, oc, ns, nc), LDel, LAdd>> :
            os \in Starts, oc \in Counts, ns \in Starts, nc \in Counts}
    \cup {<<LHunk, LAdd, d1, m, LHunk, LAdd, d2, LHunk, LDel>> :
            d1 \in {LDiff, LBadDiff}, d2 \in {LDiff, LBadDiff}, m \in MarkerVocab}
    \cup {<<LDiff, LHunk, LAdd, LBadHunk>> \o b \o <<LHunk, LDel, LDiff, LHunk, LAdd>> :
            b \in SeqsUpTo(BodyVocab \cup MarkerVocab, 2)}
    \cup {<<LDiff, EdgeHeader(os, oc, ns, nc), LDel, LCtx, LAdd>> :
            os \in EdgeStarts, oc \in EdgeCounts, ns \in EdgeStarts, nc \in EdgeCounts}
    \cup {<<LHunk, LAdd, d1, m, h1, LAdd, h2, LDel, d2, h3, LCtx>> :
            d1 \in {LDiff, LBadDiff}, d2 \in {LDiff, LBadDiff}, m \in {LNew, LRename},
            h1 \in HeaderVocab, h2 \in HeaderVocab, h3 \in HeaderVocab}
    \cup {ScenarioA}

\* every text of up to MaxLen lines over the vocabulary, and the longer texts
LineSeqs == SeqsUpTo(Vocab, MaxLen) \cup Families

\* the runs checked for termination: the same, with the exhaustive part one
\* line shorter
FairLineSeqs == SeqsUpTo(Vocab, MaxLen - 1) \cup Families

\* strings.Join(ls, "\n")
RECURSIVE Join(_)
Join(ls) ==
    IF ls = <<>> THEN <<>>
    ELSE IF Len(ls) = 1 THEN ls[1]
    ELSE ls[1] \o <<NL>> \o Join(Tail(ls))

Texts == {Join(ls) : ls \in LineSeqs}
FairTexts == {Join(ls) : ls \in FairLineSeqs}

-----------------------------------------------------------------------------
(* diffParser.parse as a state machine: one action per loop iteration *)

NoFile == FileHeader(<<>>)
NoHunk == [Header |-> <<>>, Lines |-> <<>>, OldStart |-> IntOf(0), OldLines |-> IntOf(0),
           NewStart |-> IntOf(0), NewLines |-> IntOf(0)]

\* an index out of range: the goroutine panics and parse never returns
Panic ==
    /\ pc' = "panic"
    /\ UNCHANGED <<lines, current, files, file, hunk, oldLine, newLine, err>>

\* newDiffParser(diff)
NewDiffParser(diff) ==
    /\ lines = Split(diff)
    /\ current = 0
    /\ pc = "parse"
    /\ files = <<>>
    /\ file = NoFile
    /\ hunk = NoHunk
    /\ oldLine = IntOf(0)
    /\ newLine = IntOf(0)
    /\ err = "none"

\* the loop test of parse, of parseFile and of parseHunk's body loop
ParseLoopCond == current < Len(lines)

\* faulty variant: only a marker line that names both paths starts a section
IsFileMarkerWithPaths(line) == HasPrefix(line, DiffGit) /\ FindPaths(line) # <<>>

IsFileMarker(line) == HasPrefix(line, DiffGit)
FileLoopCond == current < Len(lines) /\ ~IsFileMarker(lines[current + 1])
HunkLoopCond == current < Len(lines)
HunkBreak ==
    IF current >= Len(lines) THEN TRUE
    ELSE HasPrefix(lines[current + 1], AtAt) \/ IsFileMarker(lines[current + 1])

\* parse: a line that starts no file section
ParseSkip ==
    /\ pc = "parse"
    /\ UNCHANGED serviceVars
    /\ ParseLoopCond
    /\ IF ~InRange(lines, current) THEN Panic
       ELSE /\ ~IsFileMarker(lines[current + 1])
            /\ current' = current + 1
            /\ UNCHANGED <<lines, pc, files, file, hunk, oldLine, newLine, err>>

\* parse calls parseFile, which reads the marker line and steps past it
ParseFileCall ==
    /\ pc = "parse"
    /\ UNCHANGED serviceVars
    /\ ParseLoopCond
    /\ IF ~InRange(lines, current) THEN Panic
       ELSE /\ IsFileMarker(lines[current + 1])
            /\ file' = FileHeader(lines[current + 1])
            /\ current' = current + 1
            /\ pc' = "file"
            /\ UNCHANGED <<lines, files, hunk, oldLine, newLine, err>>

\* parse: the cursor is past the last line; return files, nil
ParseReturn ==
    /\ pc = "parse"
    /\ UNCHANGED serviceVars
    /\ ~ParseLoopCond
    /\ pc' = "done"
    /\ err' = "nil"
    /\ UNCHANGED <<lines, current, files, file, hunk, oldLine, newLine>>

\* parseFile: a "new file", "deleted file", "rename from" or "Binary files" line
FileMarker ==
    /\ pc = "file"
    /\ UNCHANGED serviceVars
    /\ FileLoopCond
    /\ IsMarkerLine(lines[current + 1])
    /\ file' = MarkerLine(file, lines[current + 1])
    /\ current' = current + 1
    /\ UNCHANGED <<lines, pc, files, hunk, oldLine, newLine, err>>

\* parseFile calls parseHunk on a "@@" line whose header matches
FileHunkCall ==
    /\ pc = "file"
    /\ UNCHANGED serviceVars
    /\ FileLoopCond
    /\ ~IsMarkerLine(lines[current + 1])
    /\ HasPrefix(lines[current + 1], AtAt)
    /\ \E matches \in {FindHunkHeader(lines[current + 1])} :
          /\ ~(Len(matches) < 5)
          /\ \E parsed \in {NewHunk(lines[current + 1], matches)} :
                /\ hunk' = parsed
                /\ oldLine' = parsed.OldStart
                /\ newLine' = parsed.NewStart
    /\ current' = current + 1
    /\ pc' = "hunk"
    /\ UNCHANGED <<lines, files, file, err>>

\* faulty variant: the section loop does not step past the unmatched header
AfterBadHeaderStalls(cur) == cur

\* faulty variant: the line behind the unmatched header is stepped over too
AfterBadHeaderSkipsNext(cur) == cur + 2

\* the cursor after a "@@" line whose header does not match
AfterBadHeader(cur) == cur + 1

\* parseFile: parseHunk returns nil and the section loop steps on
FileHunkFail ==
    /\ pc = "file"
    /\ UNCHANGED serviceVars
    /\ FileLoopCond
    /\ ~IsMarkerLine(lines[current + 1])
    /\ HasPrefix(lines[current + 1], AtAt)
    /\ \E matches \in {FindHunkHeader(lines[current + 1])} : Len(matches) < 5
    /\ current' = AfterBadHeader(current)
    /\ UNCHANGED <<lines, pc, files, file, hunk, oldLine, newLine, err>>

\* parseFile: a line no case of the switch takes
FileOther ==
    /\ pc = "file"
    /\ UNCHANGED serviceVars
    /\ FileLoopCond
    /\ ~IsMarkerLine(lines[current + 1])
    /\ ~HasPrefix(lines[current + 1], AtAt)
    /\ current' = current + 1
    /\ UNCHANGED <<lines, pc, files, file, hunk, oldLine, newLine, err>>

\* parseFile returns and parse appends the file
FileReturn ==
    /\ pc = "file"
    /\ UNCHANGED serviceVars
    /\ ~FileLoopCond
    /\ files' = Append(files, FinishFile(file))
    /\ file' = NoFile
    /\ pc' = "parse"
    /\ UNCHANGED <<lines, current, hunk, oldLine, newLine, err>>

\* faulty variant: the body loop does not step past the line
AfterLineStays(cur) == cur

\* parseHunk, the cursor after a line of the body
AfterLine(cur) == cur + 1

\* parseHunk: an empty line, a backslash line or any other line is passed over
HunkSkip ==
    /\ pc = "hunk"
    /\ UNCHANGED serviceVars
    /\ HunkLoopCond
    /\ ~HunkBreak
    /\ LET line == lines[current + 1]
       IN  IF IsEmptyLine(line) THEN
               /\ current' = AfterLine(current)
               /\ UNCHANGED <<lines, pc, files, file, hunk, oldLine, newLine, err>>
           ELSE IF ~InRange(line, 0) THEN Panic
           ELSE /\ ~IsStored(line)
                /\ current' = AfterLine(current)
                /\ UNCHANGED <<lines, pc, files, file, hunk, oldLine, newLine, err>>

\* parseHunk: a '+', '-' or ' ' line is numbered and appended
HunkAppend ==
    /\ pc = "hunk"
    /\ UNCHANGED serviceVars
    /\ HunkLoopCond
    /\ ~HunkBreak
    /\ LET line == lines[current + 1]
       IN  /\ ~IsEmptyLine(line)
           /\ IF ~InRange(line, 0) THEN Panic
              ELSE /\ IsStored(line)
                   /\ hunk' = [hunk EXCEPT
                                 !.Lines = Append(@, LineObj(line, oldLine, newLine))]
                   /\ oldLine' = OldAfter(line, oldLine)
                   /\ newLine' = NewAfter(line, newLine)
                   /\ current' = AfterLine(current)
                   /\ UNCHANGED <<lines, pc, files, file, err>>

\* parseHunk returns at the next "@@" or "diff --git" line or at the end of
\* the input; parseFile appends the hunk and continues without stepping
HunkReturn ==
    /\ pc = "hunk"
    /\ UNCHANGED serviceVars
    /\ IF HunkLoopCond THEN HunkBreak ELSE TRUE
    /\ file' = [file EXCEPT !.Hunks = Append(@, hunk)]
    /\ hunk' = NoHunk
    /\ oldLine' = IntOf(0)
    /\ newLine' = IntOf(0)
    /\ pc' = "file"
    /\ UNCHANGED <<lines, current, files, err>>

ParserNext ==
    \/ ParseSkip
    \/ ParseFileCall
    \/ ParseReturn
    \/ FileMarker
    \/ FileHunkCall
    \/ FileHunkFail
    \/ FileOther
    \/ FileReturn
    \/ HunkSkip
    \/ HunkAppend
    \/ HunkReturn

-----------------------------------------------------------------------------
(* diffParser.parse as one function of the text: what a caller of parse    *)
(* gets back.  The three loops are the three recursions; each takes the    *)
(* same branch as the action of the same loop above.                       *)

\* parseHunk's body loop from the cursor cur: the hunk and the cursor at the
\* return
RECURSIVE HunkBody(_, _, _, _, _)
HunkBody(ls, cur, h, old, new) ==
    IF cur >= Len(ls) THEN [hunk |-> h, cur |-> cur]
    ELSE IF HasPrefix(ls[cur + 1], AtAt) \/ IsFileMarker(ls[cur + 1])
    THEN [hunk |-> h, cur |-> cur]
    ELSE IF IsEmptyLine(ls[cur + 1]) THEN HunkBody(ls, AfterLine(cur), h, old, new)
    ELSE IF ~IsStored(ls[cur + 1]) THEN HunkBody(ls, AfterLine(cur), h, old, new)
    ELSE HunkBody(ls, AfterLine(cur),
                  [h EXCEPT !.Lines = Append(@, LineObj(ls[cur + 1], old, new))],
                  OldAfter(ls[cur + 1], old), NewAfter(ls[cur + 1], new))

\* parseHunk called on the header line at cur: nil (here NoHunk, with the
\* cursor left on the header) when the pattern does not match
ParseHunk(ls, cur) ==
    LET matches == FindHunkHeader(ls[cur + 1])
    IN  IF Len(matches) < 5 THEN [hunk |-> NoHunk, cur |-> cur, isNil |-> TRUE]
        ELSE LET parsed == NewHunk(ls[cur + 1], matches)
                 body == HunkBody(ls, cur + 1, parsed, parsed.OldStart, parsed.NewStart)
             IN  [hunk |-> body.hunk, cur |-> body.cur, isNil |-> FALSE]

\* parseFile's section loop from the cursor cur: the file and the cursor at
\* the return
RECURSIVE FileBody(_, _, _)
FileBody(ls, cur, f) ==
    IF cur >= Len(ls) THEN [file |-> FinishFile(f), cur |-> cur]
    ELSE IF IsFileMarker(ls[cur + 1]) THEN [file |-> FinishFile(f), cur |-> cur]
    ELSE IF IsMarkerLine(ls[cur + 1])
    THEN FileBody(ls, cur + 1, MarkerLine(f, ls[cur + 1]))
    ELSE IF HasPrefix(ls[cur + 1], AtAt)
    THEN LET r == ParseHunk(ls, cur)
         IN  IF r.isNil THEN FileBody(ls, AfterBadHeader(cur), f)
             ELSE FileBody(ls, r.cur, [f EXCEPT !.Hunks = Append(@, r.hunk)])
    ELSE FileBody(ls, cur + 1, f)

\* parse's loop from the cursor cur, with the files appended so far
RECURSIVE ParseFrom(_, _, _)
ParseFrom(ls, cur, acc) ==
    IF cur >= Len(ls) THEN acc
    ELSE IF IsFileMarker(ls[cur + 1])
    THEN LET r == FileBody(ls, cur + 1, FileHeader(ls[cur + 1]))
         IN  ParseFrom(ls, r.cur, Append(acc, r.file))
    ELSE ParseFrom(ls, cur + 1, acc)

\* newDiffParser(diff).parse()
Parse(diff) == ParseFrom(Split(diff), 0, <<>>)

\* the steps above, run to the return, give what ParseFrom computes (an
\* invariant of Spec)
StepsAgreeWithParse == pc = "done" => files = ParseFrom(lines, 0, <<>>)

-----------------------------------------------------------------------------
(* The Service and what it calls: git, and the files of the working tree.   *)
(* A call of the Service waits for each command it runs and each file it    *)
(* reads; the repository may change in between, so every answer is taken    *)
(* when the call gets it.                                                    *)

DiffTypeStaged == "staged"
DiffTypeUnstaged == "unstaged"
DiffTypeAll == "all"
DiffTypes == {DiffTypeStaged, DiffTypeUnstaged, DiffTypeAll}

\* the white space strings.TrimSpace removes (unicode.IsSpace), each
\* character as the bytes of its UTF-8 encoding: tab, newline, vertical tab,
\* form feed, carriage return, space, U+0085, U+00A0, U+1680,
\* U+2000..U+200A, U+2028, U+2029, U+202F, U+205F, U+3000
AsciiSpace == {"\t", NL, "0B", "\f", "\r", " "}
Space ==
    {<<c>> : c \in AsciiSpace}
    \cup {<<"C2", "85">>, <<"C2", "A0">>, <<"E1", "9A", "80">>}
    \cup {<<"E2", "80", c>> : c \in {"80", "81", "82", "83", "84", "85", "86", "87",
                                      "88", "89", "8A", "A8", "A9", "AF"}}
    \cup {<<"E2", "81", "9F">>, <<"E3", "80", "80">>}

\* strings.HasSuffix
HasSuffix(s, suffix) == OccursAt(s, Len(s) - Len(suffix) + 1, suffix)

\* strings.TrimSpace: the white space is taken off the front, character by
\* character, then off the end
RECURSIVE TrimLeft(_)
TrimLeft(s) ==
    LET front == {sp \in Space : HasPrefix(s, sp)}
    IN  IF front = {} THEN s
        ELSE TrimLeft(Tail1(s, Len(CHOOSE sp \in front : TRUE) + 1))

RECURSIVE TrimRight(_)
TrimRight(s) ==
    LET back == {sp \in Space : HasSuffix(s, sp)}
    IN  IF back = {} THEN s
        ELSE TrimRight(SubSeq(s, 1, Len(s) - Len(CHOOSE sp \in back : TRUE)))

TrimSpace(s) == TrimRight(TrimLeft(s))

\* what a git command or os.ReadFile answers: the bytes, or an error
Ok(data) == [data |-> data, err |-> "nil"]
Failed(why) == [data |-> <<>>, err |-> why]

\* runGitCommand: the output of the command, or "" and an error
RunGitCommand(answer) ==
    IF answer.err # "nil" THEN [out |-> <<>>, err |-> "git command failed"]
    ELSE [out |-> answer.data, err |-> "nil"]

\* the path of the untracked file, and the other paths of the working tree
UntrackedPath == <<"u">>
OtherPaths == {<<"v">>, <<"x">>}

\* a command run or a file read by the call, with the answer it got
Asked(cmd, path, answer) == [cmd |-> cmd, path |-> path, answer |-> answer]

NotCalled == [ret |-> "pending", file |-> Nil, err |-> "none"]
NoStatus == [ret |-> "pending", files |-> <<>>, err |-> "none"]
NoDiff == [ret |-> "pending", kind |-> "", result |-> Nil, err |-> "none"]
NotFound == [ret |-> "pending", name |-> <<>>, kind |-> "", file |-> Nil, err |-> "none"]

\* no call of the Service is running
Idle == [op |-> "", at |-> "idle", filename |-> <<>>, kind |-> ""]

\* the Service is not part of a run of the parser alone
ServiceIdle ==
    /\ svc = Idle
    /\ diffFiles = <<>>
    /\ untrackedFiles = <<>>
    /\ asked = <<>>
    /\ fileDiff = NotCalled
    /\ statusList = NoStatus
    /\ diffResult = NoDiff
    /\ found = NotFound

Init ==
    /\ \E diff \in Texts : NewDiffParser(diff)
    /\ ServiceIdle

Next == ParserNext

Spec == Init /\ [][Next]_vars

\* what os.ReadFile may give: any content of up to MaxContent bytes, or an error
Contents ==
    {[data |-> d, err |-> "nil"] : d \in SeqsUpTo({"a", "b", NL}, MaxContent)}
    \cup {[data |-> <<>>, err |-> "ENOENT"]}

\* getUntrackedFileDiff, the loop that makes every line of the file an Added line
DiffLines(ls) ==
    [i \in 1..Len(ls) |->
        [Type |-> LineTypeAdded, Content |-> ls[i],
         OldNumber |-> Nil, NewNumber |-> Ptr(IntOf(i))]]

\* getUntrackedFileDiff, the FileDiff returned for a file that was read
UntrackedFileDiff(filepath, data) ==
    LET ls == Split(data)
    IN  [OldPath   |-> <<>>,
         Path      |-> filepath,
         Status    |-> FileStatusAdded,
         Additions |-> Len(ls),
         Deletions |-> 0,
         IsBinary  |-> FALSE,
         Hunks     |-> << [OldStart |-> IntOf(0),
                           OldLines |-> IntOf(0),
                           NewStart |-> IntOf(1),
                           NewLines |-> IntOf(Len(ls)),
                           Header   |-> <<"@", "@", " ", "-", "0", ",", "0", " ", "+", "1", ",">>
                                            \o Itoa(Len(ls)) \o <<" ", "@", "@">>,
                           Lines    |-> DiffLines(ls)] >>]

\* getUntrackedFileDiff(filepath, contextLines): the pair it returns when
\* os.ReadFile answers read
UntrackedFileDiffOf(filepath, read) ==
    IF read.err # "nil"
    THEN [file |-> Nil, err |-> "failed to read untracked file"]
    ELSE [file |-> Ptr(UntrackedFileDiff(filepath, read.data)), err |-> "nil"]

\* GetStatus, the loop over the lines of the listing
RECURSIVE StatusFiles(_)
StatusFiles(ls) ==
    IF ls = <<>> THEN <<>>
    ELSE (IF Len(Head(ls)) > 3 THEN <<TrimSpace(Tail1(Head(ls), 4))>> ELSE <<>>)
            \o StatusFiles(Tail(ls))

\* GetStatus: the pair it returns when git status answers
StatusOf(answer) ==
    LET run == RunGitCommand(answer)
    IN  IF run.err # "nil" THEN [files |-> <<>>, err |-> run.err]
        ELSE [files |-> StatusFiles(Split(TrimSpace(run.out))), err |-> "nil"]

NonEmpty(line) == line # <<>>

\* getUntrackedFiles: the pair it returns when git ls-files answers
UntrackedFiles(answer) ==
    LET run == RunGitCommand(answer)
    IN  IF run.err # "nil" THEN [files |-> <<>>, err |-> run.err]
        ELSE IF run.out = <<>> THEN [files |-> <<>>, err |-> "nil"]
        ELSE [files |-> SelectSeq(Split(TrimSpace(run.out)), NonEmpty),
              err |-> "nil"]

\* parseDiff
ParseDiff(diffOutput) == IF diffOutput = <<>> THEN <<>> ELSE Parse(diffOutput)

\* GetDiff, the body of the loop over the untracked files: the entry is
\* appended when the file was read
AppendUntracked(fs, got) ==
    IF got.err = "nil" /\ got.file # Nil THEN Append(fs, got.file[1]) ELSE fs

\* faulty variant: the loop ends at the first file that cannot be read
RestUntilUnreadable(paths, got) == IF got.err # "nil" THEN <<>> ELSE Tail(paths)

\* GetDiff, the files the loop has still to visit after a file
RestUntracked(paths, got) == Tail(paths)

\* GetDiff: the pairs it returns
DiffFailed == [result |-> Nil, err |-> "failed to get diff"]
DiffResult(fs, diffType) ==
    [result |-> Ptr([Files |-> fs, Type |-> diffType]), err |-> "nil"]

\* whether a name is in a list of names
Listed(names, name) == \E i \in 1..Len(names) : names[i] = name

\* GetFileDiff, the loop over diff.Files
FirstWithPath(fs, filename) ==
    LET hits == {i \in 1..Len(fs) : fs[i].Path = filename}
    IN  IF hits = {} THEN [file |-> Nil, err |-> "file not found in diff"]
        ELSE [file |-> Ptr(fs[Min(hits)]), err |-> "nil"]

\* GetFileDiff, from the return of its call of GetDiff on
FromDiff(diff, filename) ==
    IF diff.err # "nil" THEN [file |-> Nil, err |-> diff.err]
    ELSE FirstWithPath(diff.result[1].Files, filename)

-----------------------------------------------------------------------------
(* What git and the working tree may answer *)

\* longest status listing, in lines
MaxStatus == 2
\* most untracked files in the enumeration
MaxUntracked == 3

\* git writes a listing line by line, each line with its newline
RECURSIVE Listing(_)
Listing(ls) ==
    IF ls = <<>> THEN <<>> ELSE Head(ls) \o <<NL>> \o Listing(Tail(ls))

\* git status --porcelain: two status characters, a space, the path; one
\* path ends in U+00A0
StatusCodes == {<<" ", "M">>, <<"M", " ">>, <<"M", "M">>, <<"?", "?">>, <<"A", " ">>}
StatusPaths == {<<"a">>, <<"b", "c">>, <<"d", "C2", "A0">>}
StatusLines == {code \o <<" ">> \o path : code \in StatusCodes, path \in StatusPaths}
StatusAnswers ==
    {Ok(Listing(ls)) : ls \in SeqsUpTo(StatusLines, MaxStatus)}
    \cup {Failed("exit status 128")}

\* git ls-files --others: the untracked paths, none of them twice
NameLists ==
    {ns \in SeqsUpTo({UntrackedPath} \cup OtherPaths, MaxUntracked) :
        \A i, j \in 1..Len(ns) : i # j => ns[i] # ns[j]}
LsAnswers == {Ok(Listing(ns)) : ns \in NameLists} \cup {Failed("exit status 128")}

\* git diff: nothing, one section for x, or a rename to x and a section for x
LDiffX == DiffGit \o <<" ", "a", "/", "x", " ", "b", "/", "x">>
DiffAnswers ==
    {Ok(<<>>),
     Ok(Listing(<<LDiffX, LHunk, LAdd>>)),
     Ok(Listing(<<LDiff, LRename, LDiffX, LHunk, LDel>>)),
     Failed("exit status 128")}

\* os.ReadFile on an untracked file of the enumeration
Reads == {Failed("ENOENT"), Ok(<<"b">>), Ok(<<"a", NL>>)}

\* no parser is running during a call of the Service
ParserIdle ==
    /\ lines = <<>>
    /\ current = 0
    /\ pc = "idle"
    /\ files = <<>>
    /\ file = NoFile
    /\ hunk = NoHunk
    /\ oldLine = IntOf(0)
    /\ newLine = IntOf(0)
    /\ err = "none"

\* the Service holds no state: a call depends on the answers it gets alone,
\* and one call is followed
ServiceInit ==
    /\ ParserIdle
    /\ ServiceIdle

-----------------------------------------------------------------------------
(* The calls of the Service: one action from each answer to the next        *)
(* command or file read, or to the return                                   *)

\* s.getUntrackedFileDiff(filepath, contextLines), called alone
GetUntrackedFileDiff ==
    /\ svc.at = "idle"
    /\ \E answer \in Contents :
          /\ asked' = Append(asked, Asked("ReadFile", UntrackedPath, answer))
          /\ \E got \in {UntrackedFileDiffOf(UntrackedPath, answer)} :
                fileDiff' = [ret |-> "returned", file |-> got.file, err |-> got.err]
    /\ svc' = [Idle EXCEPT !.op = "getUntrackedFileDiff", !.at = "done"]
    /\ UNCHANGED <<diffFiles, untrackedFiles, statusList, diffResult, found>>
    /\ UNCHANGED parserVars

\* s.GetStatus()
GetStatus ==
    /\ svc.at = "idle"
    /\ \E answer \in StatusAnswers :
          /\ asked' = Append(asked, Asked("status", <<>>, answer))
          /\ \E got \in {StatusOf(answer)} :
                statusList' = [ret |-> "returned", files |-> got.files, err |-> got.err]
    /\ svc' = [Idle EXCEPT !.op = "GetStatus", !.at = "done"]
    /\ UNCHANGED <<diffFiles, untrackedFiles, fileDiff, diffResult, found>>
    /\ UNCHANGED parserVars

\* GetDiff returns diff to its caller: to the caller of the Service, or to
\* GetFileDiff, which looks for the file and returns
ReturnDiff(op, filename, diffType, diff) ==
    /\ svc' = [op |-> op, at |-> "done", filename |-> filename, kind |-> diffType]
    /\ diffFiles' = <<>>
    /\ untrackedFiles' = <<>>
    /\ IF op = "GetDiff"
       THEN /\ diffResult' = [ret |-> "returned", kind |-> diffType,
                              result |-> diff.result, err |-> diff.err]
            /\ UNCHANGED found
       ELSE /\ \E got \in {FromDiff(diff, filename)} :
                  found' = [ret |-> "returned", name |-> filename, kind |-> diffType,
                            file |-> got.file, err |-> got.err]
            /\ UNCHANGED diffResult

\* GetDiff from the answer of git diff to its call of getUntrackedFiles, or
\* to its return
DiffAnswered(op, filename, diffType, answer) ==
    /\ asked' = Append(asked, Asked("diff", <<>>, answer))
    /\ \E run \in {RunGitCommand(answer)} :
          IF run.err # "nil" THEN ReturnDiff(op, filename, diffType, DiffFailed)
          ELSE \E parsed \in {ParseDiff(run.out)} :
                  IF diffType = DiffTypeUnstaged \/ diffType = DiffTypeAll
                  THEN /\ diffFiles' = parsed
                       /\ svc' = [op |-> op, at |-> "ls-files",
                                  filename |-> filename, kind |-> diffType]
                       /\ UNCHANGED <<untrackedFiles, diffResult, found>>
                  ELSE \E diff \in {DiffResult(parsed, diffType)} :
                          ReturnDiff(op, filename, diffType, diff)
    /\ UNCHANGED <<fileDiff, statusList>>
    /\ UNCHANGED parserVars

\* s.GetDiff(diffType), up to the answer of git diff
GetDiff(diffType) ==
    /\ svc.at = "idle"
    /\ \E answer \in DiffAnswers : DiffAnswered("GetDiff", <<>>, diffType, answer)

\* GetDiff, the answer of git ls-files: the loop over the untracked files is
\* entered, or GetDiff returns
GetDiffUntracked ==
    /\ svc.at = "ls-files"
    /\ \E answer \in LsAnswers :
          /\ asked' = Append(asked, Asked("ls-files", <<>>, answer))
          /\ \E untracked \in {UntrackedFiles(answer)} :
                IF untracked.err = "nil" /\ Len(untracked.files) > 0
                THEN /\ untrackedFiles' = untracked.files
                     /\ svc' = [svc EXCEPT !.at = "read"]
                     /\ UNCHANGED <<diffFiles, diffResult, found>>
                ELSE \E diff \in {DiffResult(diffFiles, svc.kind)} :
                        ReturnDiff(svc.op, svc.filename, svc.kind, diff)
    /\ UNCHANGED <<fileDiff, statusList>>
    /\ UNCHANGED parserVars

\* GetDiff, one turn of the loop over the untracked files: the file is read
\* and its entry appended; GetDiff returns behind the last file
GetDiffRead ==
    /\ svc.at = "read"
    /\ \E answer \in Reads :
          /\ asked' = Append(asked, Asked("ReadFile", Head(untrackedFiles), answer))
          /\ \E got \in {UntrackedFileDiffOf(Head(untrackedFiles), answer)} :
                \E fs \in {AppendUntracked(diffFiles, got)},
                   rest \in {RestUntracked(untrackedFiles, got)} :
                    IF rest # <<>>
                    THEN /\ diffFiles' = fs
                         /\ untrackedFiles' = rest
                         /\ UNCHANGED <<svc, diffResult, found>>
                    ELSE \E diff \in {DiffResult(fs, svc.kind)} :
                            ReturnDiff(svc.op, svc.filename, svc.kind, diff)
    /\ UNCHANGED <<fileDiff, statusList>>
    /\ UNCHANGED parserVars

\* s.GetFileDiff(filename, diffType), up to the answer of git ls-files: the
\* file is untracked and is read next, or GetDiff is called
GetFileDiff(filename, diffType) ==
    /\ svc.at = "idle"
    /\ \E answer \in LsAnswers :
          /\ asked' = Append(asked, Asked("ls-files", <<>>, answer))
          /\ \E untracked \in {UntrackedFiles(answer)} :
                svc' = [op |-> "GetFileDiff",
                        at |-> IF untracked.err = "nil" /\ Listed(untracked.files, filename)
                               THEN "readOne" ELSE "diff",
                        filename |-> filename, kind |-> diffType]
    /\ UNCHANGED <<diffFiles, untrackedFiles, fileDiff, statusList, diffResult, found>>
    /\ UNCHANGED parserVars

\* GetFileDiff returns what getUntrackedFileDiff makes of the file
GetFileDiffRead ==
    /\ svc.at = "readOne"
    /\ \E answer \in Reads :
          /\ asked' = Append(asked, Asked("ReadFile", svc.filename, answer))
          /\ \E got \in {UntrackedFileDiffOf(svc.filename, answer)} :
                found' = [ret |-> "returned", name |-> svc.filename, kind |-> svc.kind,
                          file |-> got.file, err |-> got.err]
    /\ svc' = [svc EXCEPT !.at = "done"]
    /\ UNCHANGED <<diffFiles, untrackedFiles, fileDiff, statusList, diffResult>>
    /\ UNCHANGED parserVars

\* GetFileDiff calls GetDiff, up to the answer of git diff
GetFileDiffCallsGetDiff ==
    /\ svc.at = "diff"
    /\ \E answer \in DiffAnswers :
          DiffAnswered(svc.op, svc.filename, svc.kind, answer)

ServiceNext ==
    \/ GetUntrackedFileDiff
    \/ GetStatus
    \/ \E diffType \in DiffTypes : GetDiff(diffType)
    \/ GetDiffUntracked
    \/ GetDiffRead
    \/ \E filename \in {UntrackedPath} \cup OtherPaths, diffType \in DiffTypes :
          GetFileDiff(filename, diffType)
    \/ GetFileDiffRead
    \/ GetFileDiffCallsGetDiff

ServiceSpec == ServiceInit /\ [][ServiceNext]_vars

\* parse runs to its return without being suspended: every step that can be
\* taken is taken
FairInit ==
    /\ \E diff \in FairTexts : NewDiffParser(diff)
    /\ ServiceIdle

FairSpec == FairInit /\ [][Next]_vars /\ WF_vars(Next)

-----------------------------------------------------------------------------
(* What the claims speak of *)

Returned == pc = "done"

\* the hunks of the result, as <<file index, hunk index>>
HunkIds ==
    {<<f, h>> \in (1..Len(files)) \X (1..Len(lines)) : h <= Len(files[f].Hunks)}
HunkAt(id) == files[id[1]].Hunks[id[2]]

\* the number of Line records of a type in a file, counted place by place
CountType(f, type) ==
    Cardinality({<<h, l>> \in (1..Len(f.Hunks)) \X (1..Len(lines)) :
                    /\ l <= Len(f.Hunks[h].Lines)
                    /\ f.Hunks[h].Lines[l].Type = type})

HasOld(l) == l.OldNumber # Nil
HasNew(l) == l.NewNumber # Nil

\* the numbers of one side are start, start + 1, ... in line order
Contiguous(h) ==
    LET olds == SelectSeq(h.Lines, HasOld)
        news == SelectSeq(h.Lines, HasNew)
    IN  /\ \A k \in 1..Len(olds) : olds[k].OldNumber = <<Plus(h.OldStart, k - 1)>>
        /\ \A k \in 1..Len(news) : news[k].NewNumber = <<Plus(h.NewStart, k - 1)>>
        /\ \A k \in 1..Len(h.Lines) :
              /\ HasOld(h.Lines[k]) <=> h.Lines[k].Type \in {LineTypeContext, LineTypeDeleted}
              /\ HasNew(h.Lines[k]) <=> h.Lines[k].Type \in {LineTypeContext, LineTypeAdded}

\* C1: in every FileChange returned by parse, additions is the number of
\* Added lines over all its hunks and deletions the number of Deleted lines.
C1_TallyMatchesLines ==
    Returned =>
        \A f \in 1..Len(files) :
            /\ files[f].Additions = CountType(files[f], LineTypeAdded)
            /\ files[f].Deletions = CountType(files[f], LineTypeDeleted)

\* two hunks, each with lines, and both kinds of change counted
C1_Witness ==
    /\ Returned
    /\ Len(files) = 1
    /\ Len(files[1].Hunks) = 2
    /\ files[1].Hunks[2].Lines # <<>>
    /\ files[1].Additions = 2
    /\ files[1].Deletions = 1

\* C2: in every hunk the old numbers of the Context and Deleted lines are
\* oldStart, oldStart+1, ... and the new numbers of the Context and Added
\* lines are newStart, newStart+1, ..., without gap or repeat; the lines
\* passed over (empty, backslash, other prefix) advance neither counter, so
\* at every point of the body loop each counter is the start plus the
\* number of lines numbered on that side.
C2_NumberingContiguous ==
    /\ Returned => \A id \in HunkIds : Contiguous(HunkAt(id))
    /\ pc = "hunk" =>
          /\ Contiguous(hunk)
          /\ oldLine = Plus(hunk.OldStart, Len(SelectSeq(hunk.Lines, HasOld)))
          /\ newLine = Plus(hunk.NewStart, Len(SelectSeq(hunk.Lines, HasNew)))

\* a body with an empty line and a backslash line between numbered lines
C2_Witness ==
    /\ Returned
    /\ lines = <<LDiff, LHunk, LCtx, LEmpty, LDel, LBackslash>>
    /\ Len(files[1].Hunks[1].Lines) = 2
    /\ files[1].Hunks[1].Lines[2].OldNumber = <<IntOf(2)>>

\* a step that leaves a loop: parseHunk, parseFile or parse returns
IsReturnStep ==
    \/ pc = "hunk" /\ pc' = "file"
    \/ pc = "file" /\ pc' = "parse"
    \/ pc = "parse" /\ pc' = "done"

\* C3: parse terminates on every input: every iteration of the three loops
\* moves the cursor forward, also the one on a "@@" line that does not
\* match the hunk pattern, and parse returns.
C3_Terminates ==
    /\ [][~IsReturnStep => current' > current]_vars
    /\ <>Returned

\* parse has returned on an input with an unmatched "@@" line in a section
C3_Witness ==
    /\ Returned
    /\ current = Len(lines)
    /\ Len(lines) >= 3
    /\ lines[1] = LDiff
    /\ lines[2] = LBadHunk

\* C4: whatever the input, parse returns no error, and no step reads a line
\* outside the line buffer or the first character of an empty line.
C4_NoErrorNoPanic ==
    /\ pc # "panic"
    /\ Returned => err = "nil"

\* parse has returned nil on an empty line in a hunk body followed by an
\* unmatched hunk header
C4_Witness ==
    /\ Returned
    /\ err = "nil"
    /\ lines = <<LDiff, LHunk, LEmpty, LBadHunk>>

\* the sections of the text: section k runs from the line after the k-th
\* "diff --git" line to the line before the next one, or to the end
MarkerIdx == {i \in 1..Len(lines) : HasPrefix(lines[i], DiffGit)}
SectionStart(k) ==
    CHOOSE i \in MarkerIdx : Cardinality({j \in MarkerIdx : j < i}) = k - 1
SectionEnd(k) ==
    IF k < Cardinality(MarkerIdx) THEN SectionStart(k + 1) - 1 ELSE Len(lines)
SectionIdx(k) == (SectionStart(k) + 1)..SectionEnd(k)

\* a "@@" line the hunk pattern matches somewhere, and one it matches nowhere
IsGoodHeader(l) ==
    HasPrefix(l, AtAt) /\ \E i \in 1..Len(l) : HunkMatchesAt(l, i) # {}
IsBadHeader(l) ==
    HasPrefix(l, AtAt) /\ \A i \in 1..Len(l) : HunkMatchesAt(l, i) = {}

\* whether line i of section k is read by parseFile's switch: no "@@" line
\* stands before it in the section, or the last one does not match (the
\* lines behind a matching header are read by parseHunk)
AtSectionLevel(k, i) ==
    LET heads == {j \in SectionIdx(k) : j < i /\ HasPrefix(lines[j], AtAt)}
    IN  IF heads = {} THEN TRUE ELSE IsBadHeader(lines[Max(heads)])

\* C5: a section that holds a "Binary files" line yields isBinary = TRUE and
\* no hunk, whatever other marker lines and hunk headers it holds.
C5_BinaryHasNoHunks ==
    Returned =>
        \A k \in 1..Len(files) :
            (\E i \in SectionIdx(k) : HasPrefix(lines[i], BinaryFilesPrefix))
                => files[k].IsBinary /\ files[k].Hunks = <<>>

\* C6: a section that holds a "rename from <path>" line yields the status
\* Renamed and that path as oldPath, whatever hunks it holds.
C6_RenameFromSetsOldPath ==
    Returned =>
        \A k \in 1..Len(files) :
            (\E i \in SectionIdx(k) : HasPrefix(lines[i], RenameFromTrim))
                => /\ files[k].Status = FileStatusRenamed
                   /\ \E i \in SectionIdx(k) :
                         /\ HasPrefix(lines[i], RenameFromTrim)
                         /\ files[k].OldPath = Tail1(lines[i], Len(RenameFromTrim) + 1)

\* the number a numeral writes, whatever its size
RECURSIVE Num(_)
Num(ds) ==
    IF Len(ds) = 0 THEN IntOf(0)
    ELSE TimesTenPlus(Num(SubSeq(ds, 1, Len(ds) - 1)), DigitVal(ds[Len(ds)]))

\* the number a count of a header stands for: 1 when it is omitted
WrittenCount(c) == IF c = Omitted THEN IntOf(1) ELSE IntOf(c[1])
WrittenEdgeCount(c) == IF c = Omitted THEN IntOf(1) ELSE Num(c[1])

\* every generated header with the numbers its counts stand for
HeaderTable ==
    {<<MkHeader(os, oc, ns, nc), WrittenCount(oc), WrittenCount(nc)>> :
        os \in Starts, oc \in Counts, ns \in Starts, nc \in Counts}
    \cup {<<EdgeHeader(os, oc, ns, nc), WrittenEdgeCount(oc), WrittenEdgeCount(nc)>> :
            os \in EdgeStarts, oc \in EdgeCounts, ns \in EdgeStarts, nc \in EdgeCounts}

\* C7: a header that matches stores 1 for an omitted count and the written
\* value for a count that is present; an explicit 0 stays 0.
C7_OmittedCountIsOne ==
    /\ pc = "hunk" =>
          \A t \in HeaderTable :
              hunk.Header = t[1] =>
                  /\ hunk.OldLines = t[2]
                  /\ hunk.NewLines = t[3]
    /\ Returned =>
          \A id \in HunkIds : \A t \in HeaderTable :
              HunkAt(id).Header = t[1] =>
                  /\ HunkAt(id).OldLines = t[2]
                  /\ HunkAt(id).NewLines = t[3]

\* a header with the old count omitted and an explicit new count of 0
C7_Witness ==
    /\ Returned
    /\ \E id \in HunkIds :
          /\ HunkAt(id).Header = MkHeader(2, Omitted, 1, Written(0))
          /\ HunkAt(id).OldLines = IntOf(1)
          /\ HunkAt(id).NewLines = IntOf(0)

\* parseHunk is about to return: the body loop has met the end of the input
\* or the next "@@" or "diff --git" line
HunkDone ==
    /\ pc = "hunk"
    /\ IF current >= Len(lines) THEN TRUE
       ELSE HasPrefix(lines[current + 1], AtAt) \/ HasPrefix(lines[current + 1], DiffGit)

\* the body of that hunk in the input: the lines after its header
HeaderIdx == Max({i \in 1..current : HasPrefix(lines[i], AtAt)})
Body == SubSeq(lines, HeaderIdx + 1, current)

MarkerOf(type) ==
    IF type = LineTypeAdded THEN "+" ELSE IF type = LineTypeDeleted THEN "-" ELSE " "
Rendered == [k \in 1..Len(hunk.Lines) |->
                <<MarkerOf(hunk.Lines[k].Type)>> \o hunk.Lines[k].Content]

NotBackslash(l) == ~HasPrefix(l, <<"\\">>)
IsBodyLine(l) == l # <<>> /\ l[1] \in {"+", "-", " "}

\* C8 as stated: the lines of a hunk, written as marker and content, are the
\* body of the hunk in the input, line for line, but for the backslash lines.
C8_RoundTripButBackslash ==
    HunkDone => Rendered = SelectSeq(Body, NotBackslash)

\* C8 as amended: ... are the lines of the body that start with '+', '-' or
\* a space, line for line: the empty lines and the lines with any other
\* first character are left out like the backslash lines.
C8_RoundTripOfStoredLines ==
    HunkDone => Rendered = SelectSeq(Body, IsBodyLine)

\* a body with lines of all three types and lines that are passed over
C8_Witness ==
    /\ HunkDone
    /\ Body = <<LCtx, LEmpty, LDel, LAdd>>
    /\ Len(hunk.Lines) = 3

XTxt == <<"x", ".", "t", "x", "t">>

\* C9: Scenario A yields one FileChange x.txt, Modified, additions 2,
\* deletions 1, and one hunk with Context "a" (1, 1), Deleted "b" (old 2),
\* Added "b2" (new 2), Added "c" (new 3).
C9_ScenarioA ==
    (Returned /\ lines = ScenarioA) =>
        /\ Len(files) = 1
        /\ files[1].Path = XTxt
        /\ files[1].Status = FileStatusModified
        /\ files[1].Additions = 2
        /\ files[1].Deletions = 1
        /\ Len(files[1].Hunks) = 1
        /\ files[1].Hunks[1].Lines =
              << [Type |-> LineTypeContext, Content |-> <<"a">>,
                  OldNumber |-> <<IntOf(1)>>, NewNumber |-> <<IntOf(1)>>],
                 [Type |-> LineTypeDeleted, Content |-> <<"b">>,
                  OldNumber |-> <<IntOf(2)>>, NewNumber |-> <<>>],
                 [Type |-> LineTypeAdded, Content |-> <<"b", "2">>,
                  OldNumber |-> <<>>, NewNumber |-> <<IntOf(2)>>],
                 [Type |-> LineTypeAdded, Content |-> <<"c">>,
                  OldNumber |-> <<>>, NewNumber |-> <<IntOf(3)>>] >>

C9_Witness == Returned /\ lines = ScenarioA /\ Len(files) = 1

\* the number of lines of a file: the newline-terminated lines and a last
\* line without its newline
LineCount(d) ==
    Cardinality({i \in 1..Len(d) : d[i] = NL})
        + (IF d # <<>> /\ d[Len(d)] # NL THEN 1 ELSE 0)

\* C10: for a readable untracked file of N lines getUntrackedFileDiff
\* returns status Added, deletions 0, additions N and one hunk
\* "@@ -0,0 +1,N @@" from 0,0 to 1,N with N Added lines numbered 1..N.
C10_UntrackedHasNLines ==
    (fileDiff.ret = "returned" /\ asked[1].answer.err = "nil") =>
        LET n == LineCount(asked[1].answer.data)
            f == fileDiff.file[1]
        IN  /\ f.Status = FileStatusAdded
            /\ f.Deletions = 0
            /\ f.Additions = n
            /\ Len(f.Hunks) = 1
            /\ f.Hunks[1].OldStart = IntOf(0)
            /\ f.Hunks[1].OldLines = IntOf(0)
            /\ f.Hunks[1].NewStart = IntOf(1)
            /\ f.Hunks[1].NewLines = IntOf(n)
            /\ f.Hunks[1].Header = MkHeader(0, Written(0), 1, Written(n))
            /\ Len(f.Hunks[1].Lines) = n
            /\ \A k \in 1..Len(f.Hunks[1].Lines) :
                  /\ f.Hunks[1].Lines[k].Type = LineTypeAdded
                  /\ f.Hunks[1].Lines[k].NewNumber = <<IntOf(k)>>
                  /\ f.Hunks[1].Lines[k].OldNumber = Nil

\* the lines of a listing as git wrote it, each line ended by its newline
ListedLines(out) == SubSeq(Split(out), 1, Len(Split(out)) - 1)

\* C11: for a status listing whose lines are two status characters, a space
\* and a path, GetStatus returns the paths in order, each the line without
\* its first three characters, also when the code of the first line starts
\* with a space.
C11_StatusPathsInOrder ==
    (statusList.ret = "returned" /\ asked[1].answer.err = "nil") =>
        /\ statusList.err = "nil"
        /\ statusList.files =
              [i \in 1..Len(ListedLines(asked[1].answer.data)) |->
                  Tail1(ListedLines(asked[1].answer.data)[i], 4)]

\* the commands of the call, its file reads, and the reads that gave content
IsCommand(e) == e.cmd \in {"diff", "ls-files"}
IsDiffCommand(e) == e.cmd = "diff"
IsEnumeration(e) == e.cmd = "ls-files"
IsRead(e) == e.cmd = "ReadFile"
IsContent(e) == e.cmd = "ReadFile" /\ e.answer.err = "nil"

\* whether a command that the call issued failed
CommandFails ==
    \E i \in 1..Len(asked) : IsCommand(asked[i]) /\ asked[i].answer.err # "nil"

\* C12: when the diff command or the enumeration of the untracked files
\* fails, GetDiff returns an error and no DiffResult.
C12_NoResultOnFailure ==
    (diffResult.ret = "returned" /\ CommandFails) =>
        /\ diffResult.err # "nil"
        /\ diffResult.result = Nil

\* the FileChanges a call has produced: the files of GetDiff's result and
\* the file of getUntrackedFileDiff
Produced ==
    (IF diffResult.result = Nil THEN {}
     ELSE {diffResult.result[1].Files[i] :
              i \in 1..Len(diffResult.result[1].Files)})
    \cup (IF fileDiff.file = Nil THEN {} ELSE {fileDiff.file[1]})

\* the lines that git diff printed to the call
DiffLinesAsked ==
    UNION {{Split(asked[i].answer.data)[j] : j \in 1..Len(Split(asked[i].answer.data))} :
              i \in {k \in 1..Len(asked) : IsDiffCommand(asked[k])}}

\* the names that "rename from" lines of the diff output give
RenamedFrom ==
    {Tail1(l, Len(RenameFromTrim) + 1) :
        l \in {m \in DiffLinesAsked : HasPrefix(m, RenameFromTrim)}}

\* C13: every FileChange, parsed or synthesized for an untracked file, whose
\* status is not Renamed has oldPath equal to path; a Renamed one holds the
\* name before the rename.
C13_OldPathIsPath ==
    \A f \in Produced :
        /\ f.Status # FileStatusRenamed => f.OldPath = f.Path
        /\ f.Status = FileStatusRenamed => f.OldPath \in RenamedFrom

\* the lines of section k, after its marker line
SectionLines(k) == SubSeq(lines, SectionStart(k) + 1, SectionEnd(k))

HeaderOf(h) == h.Header
HeadersOf(f) == [h \in 1..Len(f.Hunks) |-> HeaderOf(f.Hunks[h])]

\* the "rename from" lines of section k that parseFile reads
RenameLines(k) ==
    {i \in SectionIdx(k) : HasPrefix(lines[i], RenameFromPrefix) /\ AtSectionLevel(k, i)}

\* the record of the same section under a marker line that names both paths
WellFormed(k) == ParseFrom(<<LDiff>> \o SectionLines(k), 0, <<>>)

\* record k carries the status markers and the hunks that follow its marker
\* line: what the section gives under a well-formed marker line, and the
\* hunks of the matching "@@" lines of the section in text order
CarriesSection(k) ==
    /\ \E good \in {WellFormed(k)} :
          /\ Len(good) = 1
          /\ files[k].Status = good[1].Status
          /\ files[k].IsBinary = good[1].IsBinary
          /\ files[k].Hunks = good[1].Hunks
          /\ files[k].Additions = good[1].Additions
          /\ files[k].Deletions = good[1].Deletions
    /\ HeadersOf(files[k]) = SelectSeq(SectionLines(k), IsGoodHeader)

\* the path of record k: the second path of its marker line, or empty
PathFromMarker(k) ==
    /\ FindPaths(lines[SectionStart(k)]) = <<>> => files[k].Path = <<>>
    /\ FindPaths(lines[SectionStart(k)]) # <<>> =>
          files[k].Path = FindPaths(lines[SectionStart(k)])[3]

\* C14 as stated: parse returns one FileChange for each line that begins
\* with "diff --git", in the order of those lines; when the marker line does
\* not match the path pattern the record has an empty oldPath and an empty
\* path and still carries the status markers and hunks that follow; the
\* hunks of a record are those of the matching "@@" lines between its marker
\* line and the next, in text order, so that lines before the first marker
\* give no record and no hunk.
C14_UnmatchedMarkerHasNoPaths ==
    Returned =>
        /\ Len(files) = Cardinality(MarkerIdx)
        /\ \A k \in 1..Len(files) :
              /\ PathFromMarker(k)
              /\ FindPaths(lines[SectionStart(k)]) = <<>> => files[k].OldPath = <<>>
              /\ CarriesSection(k)

\* C14: parse returns one FileChange for each line that begins with
\* "diff --git", in the order of those lines; when the marker line does not
\* match the path pattern the record has an empty path, and an empty oldPath
\* unless a "rename from" line read in the section sets it (the oldPath is
\* then the one of the last such line), and still carries the status
\* markers and hunks that follow; the hunks of a record are those of the
\* matching "@@" lines between its marker line and the next, in text order,
\* so that lines before the first marker give no record and no hunk.
C14_OneFilePerMarkerLine ==
    Returned =>
        /\ Len(files) = Cardinality(MarkerIdx)
        /\ \A k \in 1..Len(files) :
              /\ PathFromMarker(k)
              /\ FindPaths(lines[SectionStart(k)]) = <<>> =>
                    files[k].OldPath =
                        IF RenameLines(k) = {} THEN <<>>
                        ELSE TrimPrefix(lines[Max(RenameLines(k))], RenameFromTrim)
              /\ CarriesSection(k)

\* a hunk before the first marker line, then a section whose marker line
\* does not match, with a "rename from" line and two hunks under different
\* headers, then a second section with a third header
C14_Witness ==
    /\ Returned
    /\ lines = <<LHunk, LAdd, LBadDiff, LRename, LHunk3, LAdd, LHunk2, LDel,
                 LDiff, LHunk, LCtx>>
    /\ Len(files) = 2
    /\ files[1].Path = <<>>
    /\ files[1].OldPath = <<"w">>
    /\ files[1].Status = FileStatusRenamed
    /\ HeadersOf(files[1]) = <<LHunk3, LHunk2>>
    /\ files[1].Additions = 1
    /\ files[1].Deletions = 1
    /\ HeadersOf(files[2]) = <<LHunk>>

\* the status a status marker line sets
StatusOfLine(l) ==
    IF HasPrefix(l, NewFilePrefix) THEN FileStatusAdded
    ELSE IF HasPrefix(l, DeletedFilePrefix) THEN FileStatusDeleted
    ELSE FileStatusRenamed

IsStatusLine(l) ==
    \/ HasPrefix(l, NewFilePrefix)
    \/ HasPrefix(l, DeletedFilePrefix)
    \/ HasPrefix(l, RenameFromPrefix)

\* C15: a marker line takes effect wherever it stands in its section,
\* before or after a hunk header: isBinary tells whether the section holds
\* a "Binary files" line, and the status is one that a "new file",
\* "deleted file" or "rename from" line of the section sets, or Modified
\* when the section holds none.
C15_MarkersInAnyOrder ==
    Returned =>
        \A k \in 1..Len(files) :
            /\ files[k].IsBinary <=>
                  \E i \in SectionIdx(k) : HasPrefix(lines[i], BinaryFilesPrefix)
            /\ files[k].Status \in
                  IF \E i \in SectionIdx(k) : IsStatusLine(lines[i])
                  THEN {StatusOfLine(lines[i]) :
                           i \in {j \in SectionIdx(k) : IsStatusLine(lines[j])}}
                  ELSE {FileStatusModified}

\* whether line i stands in a malformed hunk: the nearest "@@" or
\* "diff --git" line at or before it is a "@@" line that does not match
InBadHunk(i) ==
    LET stops == {j \in 1..i : HasPrefix(lines[j], AtAt) \/ HasPrefix(lines[j], DiffGit)}
    IN  stops # {} /\ IsBadHeader(lines[Max(stops)])

\* the text without its malformed hunks
RECURSIVE WithoutBadHunks(_)
WithoutBadHunks(i) ==
    IF i = 0 THEN <<>>
    ELSE WithoutBadHunks(i - 1) \o (IF InBadHunk(i) THEN <<>> ELSE <<lines[i]>>)

\* C16: a "@@" line that does not match the hunk pattern gives no hunk, the
\* lines up to the next "@@" or "diff --git" line give no Line record and
\* count for nothing, and all hunks and all other sections are parsed as
\* they are from the text without the malformed hunks.
C16_BadHeaderDiscarded ==
    Returned =>
        LET clean == ParseFrom(WithoutBadHunks(Len(lines)), 0, <<>>)
        IN  /\ Len(files) = Len(clean)
            /\ \A k \in 1..Len(files) :
                  /\ files[k].Hunks = clean[k].Hunks
                  /\ files[k].Additions = clean[k].Additions
                  /\ files[k].Deletions = clean[k].Deletions
                  /\ \A h \in 1..Len(files[k].Hunks) :
                        ~IsBadHeader(files[k].Hunks[h].Header)
                  /\ (\A i \in SectionIdx(k) : ~IsBadHeader(lines[i]))
                        => files[k] = clean[k]

\* a malformed hunk with an added line in it, between two well-formed hunks
\* and before a second section
C16_Witness ==
    /\ Returned
    /\ lines = <<LDiff, LHunk, LAdd, LBadHunk, LAdd, LHunk, LDel, LDiff, LHunk, LAdd>>
    /\ Len(files) = 2
    /\ Len(files[1].Hunks) = 2
    /\ files[1].Additions = 1
    /\ files[1].Deletions = 1
    /\ files[2].Additions = 1

\* what GetDiff was answered: by git diff, by git ls-files, by the reads
DiffAnswer == SelectSeq(asked, IsDiffCommand)[1].answer
Enumeration == SelectSeq(asked, IsEnumeration)
FilesRead == SelectSeq(asked, IsRead)

\* one synthesized entry for every file that was read, in the order of the
\* reads
Synthesized ==
    [i \in 1..Len(SelectSeq(asked, IsContent)) |->
        UntrackedFileDiff(SelectSeq(asked, IsContent)[i].path,
                          SelectSeq(asked, IsContent)[i].answer.data)]

\* C17: when the diff command succeeds GetDiff returns a result, whatever
\* untracked files cannot be read: for the kinds unstaged and all, with the
\* enumeration at hand, every file of the enumeration is read, in its
\* order, and the result is the parsed files followed by one synthesized
\* entry for every file that could be read; for the kind staged it is the
\* parsed files alone.
C17_UnreadableFileSkipped ==
    (diffResult.ret = "returned" /\ DiffAnswer.err = "nil") =>
        /\ diffResult.err = "nil"
        /\ diffResult.result # Nil
        /\ diffResult.kind = DiffTypeStaged =>
              /\ FilesRead = <<>>
              /\ diffResult.result[1].Files = ParseDiff(DiffAnswer.data)
        /\ (diffResult.kind # DiffTypeStaged /\ Enumeration[1].answer.err = "nil") =>
              /\ [i \in 1..Len(FilesRead) |-> FilesRead[i].path]
                    = ListedLines(Enumeration[1].answer.data)
              /\ diffResult.result[1].Files = ParseDiff(DiffAnswer.data) \o Synthesized

\* three untracked files of which the second cannot be read, behind a
\* tracked file
C17_Witness ==
    /\ diffResult.ret = "returned"
    /\ diffResult.kind = DiffTypeAll
    /\ Len(FilesRead) = 3
    /\ FilesRead[1].answer.err = "nil"
    /\ FilesRead[2].answer.err # "nil"
    /\ FilesRead[3].answer.err = "nil"
    /\ diffResult.err = "nil"
    /\ Len(diffResult.result[1].Files) = 3
    /\ diffResult.result[1].Files[1].Status = FileStatusModified
    /\ diffResult.result[1].Files[2].Path = FilesRead[1].path
    /\ diffResult.result[1].Files[3].Path = FilesRead[3].path

\* the status lines of section k that parseFile recognizes
Recognized(k) ==
    {i \in SectionIdx(k) : IsStatusLine(lines[i]) /\ AtSectionLevel(k, i)}

\* a section whose only marker is a "Binary files" line: no status line and
\* no hunk header
OnlyBinaryMarker(k) ==
    /\ \E i \in SectionIdx(k) : HasPrefix(lines[i], BinaryFilesPrefix)
    /\ \A i \in SectionIdx(k) : ~IsStatusLine(lines[i]) /\ ~HasPrefix(lines[i], AtAt)

\* C18: every FileChange of parse has one of the four statuses; it is
\* Modified exactly when parseFile recognized no "new file", "deleted file"
\* or "rename from" line in the section, and otherwise the status of the
\* last line recognized; a section whose only marker is a "Binary files"
\* line gives Modified, isBinary and no hunk.
C18_StatusDefaultsToModified ==
    Returned =>
        \A k \in 1..Len(files) :
            /\ files[k].Status \in {FileStatusAdded, FileStatusDeleted,
                                    FileStatusModified, FileStatusRenamed}
            /\ files[k].Status = FileStatusModified <=> Recognized(k) = {}
            /\ Recognized(k) # {} =>
                  files[k].Status = StatusOfLine(lines[Max(Recognized(k))])
            /\ OnlyBinaryMarker(k) =>
                  /\ files[k].Status = FileStatusModified
                  /\ files[k].IsBinary
                  /\ files[k].Hunks = <<>>

\* a section of an index line and a "Binary files" line
C18_Witness ==
    /\ Returned
    /\ lines = <<LDiff, LOther, LBinary>>
    /\ files[1].Status = FileStatusModified
    /\ files[1].IsBinary
    /\ files[1].Hunks = <<>>

\* the number of Line records in a sequence of hunks, and of files
RECURSIVE LinesIn(_)
LinesIn(hs) == IF hs = <<>> THEN 0 ELSE Len(Head(hs).Lines) + LinesIn(Tail(hs))
RECURSIVE LinesOf(_)
LinesOf(fs) == IF fs = <<>> THEN 0 ELSE LinesIn(Head(fs).Hunks) + LinesOf(Tail(fs))

\* the Line records made so far: in the files returned, in the file under
\* construction and in the hunk under construction
TotalLines == LinesOf(files) + LinesIn(file.Hunks) + Len(hunk.Lines)

\* C19: the cursor stays within 0..len(lines) and never decreases; a step
\* makes at most one Line record, and only while it moves the cursor over
\* one line; so the Line records never outnumber the lines passed.
C19_OnePass ==
    /\ [](current \in 0..Len(lines) /\ TotalLines <= current)
    /\ [][/\ current' >= current
          /\ TotalLines' \in {TotalLines, TotalLines + 1}
          /\ TotalLines' > TotalLines => current' = current + 1]_vars

\* parse has returned two files with Line records, fewer than the lines
C19_Witness ==
    /\ Returned
    /\ current = Len(lines)
    /\ Len(files) = 2
    /\ TotalLines = 3
    /\ Len(lines) = 9

\* a state of the repository: what git diff and git ls-files print in it
\* and what reading each file gives
Worlds ==
    [diff : DiffAnswers, lsFiles : LsAnswers,
     disk : [{UntrackedPath} \cup OtherPaths -> Reads]]

\* whether every answer the call got is the answer of the state w: the
\* repository stood in w throughout the call
SawOnly(w) ==
    \A i \in 1..Len(asked) :
        asked[i].answer =
            IF IsDiffCommand(asked[i]) THEN w.diff
            ELSE IF IsEnumeration(asked[i]) THEN w.lsFiles
            ELSE w.disk[asked[i].path]

\* the untracked entries of GetDiff in the state w
RECURSIVE UntrackedIn(_, _)
UntrackedIn(w, paths) ==
    IF paths = <<>> THEN <<>>
    ELSE (IF w.disk[Head(paths)].err = "nil"
          THEN <<UntrackedFileDiff(Head(paths), w.disk[Head(paths)].data)>> ELSE <<>>)
            \o UntrackedIn(w, Tail(paths))

\* the files GetDiff(kind) returns in the state w
FilesIn(w, kind) ==
    ParseDiff(w.diff.data)
        \o (IF kind # DiffTypeStaged /\ w.lsFiles.err = "nil"
            THEN UntrackedIn(w, ListedLines(w.lsFiles.data)) ELSE <<>>)

\* C20: in every state of the repository that lasts through the call,
\* GetFileDiff(name, kind) returns a FileChange exactly when GetDiff(kind)
\* succeeds in that state and its Files hold an entry with that path, and
\* then the first such entry; otherwise it returns an error.
C20_FileDiffAgreesWithDiff ==
    found.ret = "returned" =>
        \A w \in Worlds :
            SawOnly(w) =>
                LET fs == FilesIn(w, found.kind)
                    hits == {i \in 1..Len(fs) : fs[i].Path = found.name}
                IN  IF w.diff.err = "nil" /\ hits # {}
                    THEN found.err = "nil" /\ found.file = Ptr(fs[Min(hits)])
                    ELSE found.err # "nil" /\ found.file = Nil

====
